---- MODULE Spec2Model ----
(***************************************************************************)
(* A model of summarix: the frequency-based extractive summarizer          *)
(* (src/summarizer.py), the intent-driven chat responder (src/chatbot.py)  *)
(* and the readable-text extractor with its web entry points (src/app.py). *)
(*                                                                         *)
(* Text is a sequence of items: a word, the sentence terminator "." or one *)
(* whitespace character " ".  A ratio is a number of hundredths (30 is     *)
(* 0.3); the products len(sentences) * ratio the code truncates are exact  *)
(* in binary floating point for the sentence counts explored here.         *)
(***************************************************************************)
EXTENDS Integers, Sequences, FiniteSets, TLC

VARIABLES
    op,        \* the entry point this behaviour exercises
    pc,        \* position inside the call
    text,      \* summarize_text / api_summarize: the text argument
    ratio,     \* summarize_text / api_summarize: the ratio argument
    isJson,    \* api_summarize: request.is_json
    question,  \* chatbot: the question argument
    summary,   \* chatbot: the summary argument
    env,       \* chatbot: what the installation provides
    url,       \* extract_readable_text: the url argument
    HAS_READABILITY,  \* whether readability-lxml was importable
    resp,      \* extract_readable_text: the response of requests.get
    soup,      \* extract_readable_text: the parsed document, as the generic heuristics left it
    trace,     \* extract_readable_text: the steps taken so far, each with its outcome
    ret        \* what the call returned or raised

sumVars == <<text, ratio, isJson>>
chatVars == <<question, summary, env>>
vars == <<op, pc, text, ratio, isJson, question, summary, env, url,
          HAS_READABILITY, resp, soup, trace, ret>>

\* ------------------------------------------------------------------ bounds
MaxSents == 3       \* sentences in an input text
MaxPad == 1         \* extra whitespace characters around and between words
MaxQWords == 3      \* words in a question given to detect_intent
MaxChat == 3        \* question words plus summary sentences of one chat call
MaxRuns == 3        \* runs of characters in the text a page yields
MaxNodes == 2       \* elements of a parsed document

\* ------------------------------------------------------------- vocabulary
SP == " "
DOT == "."

\* str.lower() on one item
LowerTok(w) ==
    CASE w = "Summaries" -> "summaries"
      [] w = "Key" -> "key"
      [] w = "What" -> "what"
      [] OTHER -> w

\* str.isalnum() on one token of word_tokenize
IsAlnum(w) == w \notin {DOT, SP, "well-known", "?"}

\* the English stopwords the vocabulary contains
STOP_WORDS == {"the", "what", "about", "is", "are", "how"}

\* len() of one item, in characters
TokLen(w) ==
    CASE w \in {"Summaries", "summaries"} -> 9
      [] w \in {"condense", "articles"} -> 8
      [] w = "the" -> 3
      [] w = "well-known" -> 10
      [] w \in {"shorter", "explain", "article"} -> 7
      [] w \in {"length", "points"} -> 6
      [] w \in {"about", "point"} -> 5
      [] w \in {"What", "what"} -> 4
      [] w \in {"Key", "key"} -> 3
      [] OTHER -> 1

\* k in w for two words: k is a substring of w
Contains(w, k) ==
    \/ w = k
    \/ <<w, k>> \in {<<"points", "point">>, <<"articles", "article">>}

\* ---------------------------------------------------------------- helpers
Max(a, b) == IF a >= b THEN a ELSE b
Min(a, b) == IF a <= b THEN a ELSE b

RECURSIVE Spaces(_)
Spaces(n) == IF n <= 0 THEN <<>> ELSE <<SP>> \o Spaces(n - 1)

Lower(t) == [i \in DOMAIN t |-> LowerTok(t[i])]

RECURSIVE CharLen(_)
CharLen(t) == IF t = <<>> THEN 0 ELSE TokLen(Head(t)) + CharLen(Tail(t))

RECURSIVE LStrip(_)
LStrip(t) == IF t # <<>> /\ Head(t) = SP THEN LStrip(Tail(t)) ELSE t

RECURSIVE RStrip(_)
RStrip(t) ==
    IF t # <<>> /\ t[Len(t)] = SP THEN RStrip(SubSeq(t, 1, Len(t) - 1)) ELSE t

\* str.strip()
Strip(t) == RStrip(LStrip(t))

\* re.sub(r"\s+", " ", text): every run of whitespace becomes one space
RECURSIVE CollapseWs(_)
CollapseWs(t) ==
    IF t = <<>> THEN <<>>
    ELSE IF Head(t) = SP THEN <<SP>> \o CollapseWs(LStrip(t))
    ELSE <<Head(t)>> \o CollapseWs(Tail(t))

\* a variant that only trims the ends
CleanTextTrimOnly(t) == Strip(t)

_clean_text(t) == Strip(CollapseWs(t))

\* a variant that joins without the separator
RECURSIVE JoinNoSpace(_)
JoinNoSpace(parts) ==
    IF parts = <<>> THEN <<>> ELSE Head(parts) \o JoinNoSpace(Tail(parts))

\* " ".join(parts)
RECURSIVE Join(_)
Join(parts) ==
    IF parts = <<>> THEN <<>>
    ELSE IF Len(parts) = 1 THEN parts[1]
    ELSE parts[1] \o <<SP>> \o Join(Tail(parts))

\* nltk sent_tokenize: a sentence ends at a "." that whitespace follows; the
\* whitespace between two sentences belongs to neither.
RECURSIVE SentScan(_, _, _, _)
SentScan(t, i, cur, acc) ==
    IF i > Len(t)
    THEN IF RStrip(cur) = <<>> THEN acc ELSE Append(acc, RStrip(cur))
    ELSE IF t[i] = SP /\ cur = <<>> THEN SentScan(t, i + 1, cur, acc)
    ELSE IF t[i] = DOT /\ i < Len(t) /\ t[i + 1] = SP
         THEN SentScan(t, i + 1, <<>>, Append(acc, Append(cur, DOT)))
    ELSE SentScan(t, i + 1, Append(cur, t[i]), acc)

sent_tokenize(t) == SentScan(t, 1, <<>>, <<>>)

\* nltk word_tokenize: words and punctuation marks, whitespace dropped
word_tokenize(t) == SelectSeq(t, LAMBDA x : x # SP)

Range(s) == {s[i] : i \in DOMAIN s}

\* the first k elements, s[:k]
Take(s, k) == SubSeq(s, 1, Min(k, Len(s)))

\* ------------------------------------------------------------- summarizer
\* float(ratio): the value in hundredths, or the exception raised
Float(r) ==
    CASE r.t = "num" -> [exc |-> "none", v |-> r.v, nan |-> FALSE]
      [] r.t = "numstr" -> [exc |-> "none", v |-> r.v, nan |-> FALSE]
      [] r.t = "nan" -> [exc |-> "none", v |-> 0, nan |-> TRUE]
      [] r.t = "str" -> [exc |-> "ValueError", v |-> 0, nan |-> FALSE]
      [] OTHER -> [exc |-> "TypeError", v |-> 0, nan |-> FALSE]

\* max(0.1, min(0.9, x)); every comparison with NaN is false, so
\* min(0.9, nan) keeps its first argument
Clamp(f) == IF f.nan THEN 90 ELSE Max(10, Min(90, f.v))

\* a variant that rounds the product up
SelectNCeil(n, r) == Max(1, (n * r + 99) \div 100)

\* max(1, int(len(sentences) * ratio))
SelectN(n, r) == Max(1, (n * r) \div 100)

\* freq: the count of every alphanumeric non-stopword token
Freq(words) ==
    [w \in {words[i] : i \in {j \in DOMAIN words :
                IsAlnum(words[j]) /\ words[j] \notin STOP_WORDS}}
        |-> Cardinality({i \in DOMAIN words : words[i] = w})]

\* max(freq.values())
MaxF(freq) ==
    CHOOSE m \in {freq[w] : w \in DOMAIN freq} : \A w \in DOMAIN freq : freq[w] <= m

RECURSIVE SumFreq(_, _)
SumFreq(ws, freq) ==
    IF ws = <<>> THEN 0
    ELSE (IF IsAlnum(Head(ws)) /\ Head(ws) \in DOMAIN freq THEN freq[Head(ws)] ELSE 0)
         + SumFreq(Tail(ws), freq)

AlnumCount(ws) == Len(SelectSeq(ws, IsAlnum))

\* score / count of one sentence, as the fraction num / den: the normalised
\* frequencies freq[w] / maxf summed, over the alphanumeric token count
Score(s, freq) ==
    LET ws == word_tokenize(Lower(s))
    IN [num |-> SumFreq(ws, freq), den |-> MaxF(freq) * AlnumCount(ws)]

Greater(a, b) == a.num * b.den > b.num * a.den

\* a variant that scores every sentence, those without an alphanumeric
\* token included
RECURSIVE ScoredKeysAll(_, _)
ScoredKeysAll(sents, acc) ==
    IF sents = <<>> THEN acc
    ELSE ScoredKeysAll(Tail(sents),
            IF Head(sents) \notin Range(acc) THEN Append(acc, Head(sents)) ELSE acc)

\* the keys of sent_scores in insertion order: each sentence string with an
\* alphanumeric token, once
RECURSIVE ScoredKeys(_, _)
ScoredKeys(sents, acc) ==
    IF sents = <<>> THEN acc
    ELSE LET s == Head(sents)
         IN ScoredKeys(Tail(sents),
                IF AlnumCount(word_tokenize(Lower(s))) > 0 /\ s \notin Range(acc)
                THEN Append(acc, s) ELSE acc)

\* sorted(..., key=score, reverse=True): stable, equal scores keep their order
RECURSIVE Ranked(_, _)
Ranked(keys, freq) ==
    IF keys = <<>> THEN <<>>
    ELSE LET k == keys[Len(keys)]
             rest == Ranked(SubSeq(keys, 1, Len(keys) - 1), freq)
             ahead == SelectSeq(rest, LAMBDA x : ~Greater(Score(k, freq), Score(x, freq)))
             behind == SelectSeq(rest, LAMBDA x : Greater(Score(k, freq), Score(x, freq)))
         IN ahead \o <<k>> \o behind

\* a variant that keeps the selected sentences in score order
SummarySentencesRanked(sentences, freq, select_n) ==
    LET ranked == Ranked(ScoredKeys(sentences, <<>>), freq)
    IN IF ranked = <<>> THEN Take(sentences, select_n) ELSE Take(ranked, select_n)

\* lines 55-57: the sentences whose string is among the select_n best
\* scored, in document order
ScoredSelection(sentences, freq, select_n) ==
    LET ranked == Ranked(ScoredKeys(sentences, <<>>), freq)
        top_sentences == Range(Take(ranked, select_n))
    IN SelectSeq(sentences, LAMBDA s : s \in top_sentences)

\* lines 55-59: the selected sentences, or the first select_n when the
\* selection is empty
SummarySentences(sentences, freq, select_n) ==
    LET summary_sentences == ScoredSelection(sentences, freq, select_n)
    IN IF summary_sentences = <<>> THEN Take(sentences, select_n)
       ELSE summary_sentences

Ok(v) == [exc |-> "none", val |-> v]
Raise(e) == [exc |-> e, val |-> <<>>]

summarize_text(t, r) ==
    IF Strip(t) = <<>> THEN Ok(<<>>)
    ELSE IF Float(r).exc # "none" THEN Raise(Float(r).exc)
    ELSE LET rr == Clamp(Float(r))
             cleaned == _clean_text(t)
             sentences == sent_tokenize(cleaned)
             freq == Freq(word_tokenize(Lower(cleaned)))
             select_n == SelectN(Len(sentences), rr)
         IN IF Len(sentences) <= 1 THEN Ok(cleaned)
            ELSE IF DOMAIN freq = {} THEN Ok(Join(Take(sentences, select_n)))
            ELSE Ok(Join(SummarySentences(sentences, freq, select_n)))

\* ------------------------------------------------------------------ inputs
\* the sentences input texts are built from, as word lists
Pool ==
    { <<"Summaries", "condense">>, <<"articles", "condense">>,
      <<"the", "summaries">>, <<"the">>, <<"well-known">> }

\* the words with 1 + pad whitespace characters between them, then "."
RECURSIVE Spell(_, _)
Spell(ws, pad) ==
    IF Len(ws) = 1 THEN <<ws[1], DOT>>
    ELSE <<ws[1]>> \o Spaces(1 + pad) \o Spell(Tail(ws), pad)

RECURSIVE Layout(_, _)
Layout(ss, pad) ==
    IF ss = <<>> THEN <<>>
    ELSE IF Len(ss) = 1 THEN Spell(ss[1], pad)
    ELSE Spell(ss[1], pad) \o Spaces(1 + pad) \o Layout(Tail(ss), pad)

\* a text: pad whitespace characters, the sentences, pad whitespace characters
Build(ss, pad) == Spaces(pad) \o Layout(ss, pad) \o Spaces(pad)

SentLists == UNION {[1..n -> Pool] : n \in 0..MaxSents}

Texts == {Build(ss, pad) : ss \in SentLists, pad \in 0..MaxPad}

Num(v) == [t |-> "num", v |-> v]

\* ratio arguments: numbers (hundredths), a numeric string, a non-numeric
\* string, None, NaN, and the argument left out
RatioArgs ==
    {Num(v) : v \in {0 - 50, 5, 50, 67, 90, 250}}
        \cup {[t |-> "numstr", v |-> 30], [t |-> "str", v |-> 0],
              [t |-> "none", v |-> 0], [t |-> "nan", v |-> 0],
              [t |-> "missing", v |-> 0]}

\* the parameter default ratio=0.3 / data.get("ratio", 0.3)
DEFAULT_RATIO == 30
OrDefault(r) == IF r.t = "missing" THEN Num(DEFAULT_RATIO) ELSE r

Pending == [exc |-> "pending", val |-> <<>>]

\* the empty url argument, and no response received
NoUrl == [scheme |-> "", rest |-> ""]
NoResponse == [status |-> 0, ctype |-> "", body_html |-> FALSE]

\* no document parsed
NoSoup == <<>>

\* ------------------------------------------------------------ entry points
MIN_TEXT_LENGTH == 50
MAX_TEXT_LENGTH == 200000

\* calculate_stats: the character and word counts of text and summary
calculate_stats(t, s) ==
    [original_words |-> Len(SelectSeq(word_tokenize(t), LAMBDA x : x # DOT)),
     original_chars |-> CharLen(t),
     summary_words |-> Len(SelectSeq(word_tokenize(s), LAMBDA x : x # DOT)),
     summary_chars |-> CharLen(s)]

\* the ratio api_summarize and index hand to summarize_text
RequestRatio(r) ==
    IF Float(OrDefault(r)).exc # "none" THEN Num(DEFAULT_RATIO)
    ELSE Num(Clamp(Float(OrDefault(r))))

api_summarize(json, t, r) ==
    IF ~json THEN [status |-> 400, error |-> "Content-Type must be application/json"]
    ELSE IF Strip(t) = <<>> THEN [status |-> 400, error |-> "No text provided"]
    ELSE IF CharLen(Strip(t)) < MIN_TEXT_LENGTH
         THEN [status |-> 400, error |-> "Text too short"]
    ELSE IF CharLen(Strip(t)) > MAX_TEXT_LENGTH
         THEN [status |-> 400, error |-> "Text too long"]
    ELSE LET res == summarize_text(Strip(t), RequestRatio(r))
         IN IF res.exc # "none"
            THEN [status |-> 500, error |-> "An error occurred processing your request"]
            ELSE [status |-> 200, summary |-> res.val,
                  stats |-> calculate_stats(Strip(t), res.val)]

InitSummarize ==
    /\ op \in {"summarize_text", "api_summarize"}
    /\ pc = "call"
    /\ text \in Texts
    /\ ratio \in RatioArgs
    /\ isJson \in IF op = "api_summarize" THEN BOOLEAN ELSE {TRUE}
    /\ question = <<>> /\ summary = <<>> /\ env = "ok"
    /\ url = NoUrl /\ HAS_READABILITY = FALSE /\ resp = NoResponse /\ soup = NoSoup /\ trace = <<>>
    /\ ret = Pending

CallSummarizeText ==
    /\ op = "summarize_text" /\ pc = "call"
    /\ ret' = summarize_text(text, OrDefault(ratio))
    /\ pc' = "done"
    /\ UNCHANGED <<op, sumVars, chatVars, url, HAS_READABILITY, resp, soup, trace>>

ApiSummarize ==
    /\ op = "api_summarize" /\ pc = "call"
    /\ ret' = api_summarize(isJson, text, ratio)
    /\ pc' = "done"
    /\ UNCHANGED <<op, sumVars, chatVars, url, HAS_READABILITY, resp, soup, trace>>

NextSummarize == CallSummarizeText \/ ApiSummarize

SpecSummarize == InitSummarize /\ [][NextSummarize]_vars

\* ------------------------------------------------- summarizer: properties
\* a direct call of summarize_text has returned a value
Returned == op = "summarize_text" /\ pc = "done" /\ ret.exc = "none"

\* the sentences the text segments into, and those of the returned summary
SourceSentences == sent_tokenize(_clean_text(text))
OutSentences == sent_tokenize(ret.val)

\* the ratio after float() and the clamp
Effective == Clamp(Float(OrDefault(ratio)))

\* every word token is a stopword or not alphanumeric
NoContentWord ==
    \A i \in DOMAIN text :
        text[i] = SP \/ ~IsAlnum(text[i]) \/ LowerTok(text[i]) \in STOP_WORDS

RECURSIVE IsSubseq(_, _)
IsSubseq(a, b) ==
    IF a = <<>> THEN TRUE
    ELSE IF b = <<>> THEN FALSE
    ELSE IF Head(a) = Head(b) THEN IsSubseq(Tail(a), Tail(b))
    ELSE IsSubseq(a, Tail(b))

\* C1: for a text of n >= 2 sentences the summary consists of sentences of
\* the text and has exactly max(1, floor(n * r)) of them, duplicates and
\* sentences without an alphanumeric token included.
C1_ExactCount ==
    (Returned /\ Len(SourceSentences) >= 2) =>
        /\ Range(OutSentences) \subseteq Range(SourceSentences)
        /\ Len(OutSentences) = Max(1, (Len(SourceSentences) * Effective) \div 100)

\* C2: the sentences of the summary keep the relative order they have in
\* the source text, whatever their scores.
C2_DocumentOrder == Returned => IsSubseq(OutSentences, SourceSentences)

\* C2 witness: two sentences were selected and the later one scores higher.
C2_Witness ==
    /\ Returned
    /\ Len(OutSentences) >= 2
    /\ LET freq == Freq(word_tokenize(Lower(_clean_text(text))))
       IN /\ DOMAIN freq # {}
          /\ AlnumCount(word_tokenize(Lower(OutSentences[1]))) > 0
          /\ Greater(Score(OutSentences[2], freq), Score(OutSentences[1], freq))

\* C3: with a non-empty text, summarize_text does not raise whatever the
\* ratio argument (negative, above 1, non-numeric).
C3_NeverRaises ==
    (op = "summarize_text" /\ pc = "done" /\ Strip(text) # <<>>) => ret.exc = "none"

\* C4 as stated: a non-empty text of at most one sentence is returned
\* unchanged, leading, trailing and repeated whitespace included.
C4_Unchanged ==
    (Returned /\ Strip(text) # <<>> /\ Len(sent_tokenize(text)) <= 1) => ret.val = text

\* C4: a non-empty text of at most one sentence is returned with its
\* whitespace normalised (every run one space, the ends trimmed), for every
\* numeric ratio; a non-numeric ratio raises.
C4_Normalised ==
    (op = "summarize_text" /\ pc = "done" /\ Strip(text) # <<>>
        /\ Len(sent_tokenize(text)) <= 1) =>
        /\ Float(OrDefault(ratio)).exc = "none" =>
              \E ss \in [1..1 -> Pool], pad \in 0..MaxPad :
                  text = Build(ss, pad) /\ ret = Ok(Build(ss, 0))
        /\ Float(OrDefault(ratio)).exc # "none" => ret.exc # "none"

\* C4 witness: a one-sentence text with extra whitespace was summarized.
C4_Witness ==
    /\ Returned
    /\ Len(sent_tokenize(text)) = 1
    /\ Strip(text) # text
    /\ \E i \in 1..(Len(text) - 1) : text[i] = SP /\ text[i + 1] = SP
    /\ \E i \in DOMAIN ret.val : ret.val[i] = SP

\* C10 as stated: with an empty frequency table the first ceil(n * ratio)
\* sentences are returned.
C10_Ceil ==
    (Returned /\ Len(SourceSentences) >= 2 /\ NoContentWord) =>
        ret.val = Join(Take(SourceSentences,
                     Max(1, (Len(SourceSentences) * Effective + 99) \div 100)))

\* C10: with n >= 2 sentences and an empty frequency table the summary is
\* the first max(1, floor(n * ratio)) sentences in document order, joined
\* by single spaces.
C10_Floor ==
    (Returned /\ Len(SourceSentences) >= 2 /\ NoContentWord) =>
        ret.val = Join(Take(SourceSentences,
                     Max(1, (Len(SourceSentences) * Effective) \div 100)))

\* C10 witness: such a text where floor and ceil differ and more than one
\* sentence is returned.
C10_Witness ==
    /\ Returned /\ NoContentWord
    /\ Len(SourceSentences) = 3 /\ Effective = 90
    /\ Len(OutSentences) = 2

\* C12: with n >= 2 sentences and a non-empty frequency table, no sentence
\* without an alphanumeric token is in the summary, and the scored selection
\* is never empty, so the first-N fallback is not taken.
C12_ScoredOnly ==
    (Returned /\ Len(SourceSentences) >= 2 /\ ~NoContentWord) =>
        /\ \A i \in DOMAIN OutSentences :
              AlnumCount(word_tokenize(Lower(OutSentences[i]))) > 0
        /\ ScoredSelection(SourceSentences,
                Freq(word_tokenize(Lower(_clean_text(text)))),
                SelectN(Len(SourceSentences), Effective)) # <<>>

\* C12 witness: the text holds sentences without an alphanumeric token and
\* fewer scored sentences than were to be selected.
C12_Witness ==
    /\ Returned /\ ~NoContentWord
    /\ Len(SourceSentences) = 3
    /\ \E i \in DOMAIN SourceSentences :
          AlnumCount(word_tokenize(SourceSentences[i])) = 0
    /\ Len(OutSentences) < Max(1, (Len(SourceSentences) * Effective) \div 100)

\* ---------------------------------------------------------------- chatbot
\* re.sub(r"[^\w\s]", "", w) on one item: what is left of it, as items
RemovePunct(w) ==
    CASE w \in {DOT, "?"} -> <<>>
      [] w = "well-known" -> <<"well", "known">>
      [] OTHER -> <<w>>

RECURSIVE RemovePunctAll(_)
RemovePunctAll(t) ==
    IF t = <<>> THEN <<>> ELSE RemovePunct(Head(t)) \o RemovePunctAll(Tail(t))

normalize_text(t) == RemovePunctAll(Strip(Lower(t)))

\* str.split(): the maximal runs of items without whitespace; a run is one
\* token, written as the items it is spelled from
RECURSIVE SplitScan(_, _, _)
SplitScan(t, cur, acc) ==
    IF t = <<>> THEN (IF cur = <<>> THEN acc ELSE Append(acc, cur))
    ELSE IF Head(t) = SP
         THEN SplitScan(Tail(t), <<>>, IF cur = <<>> THEN acc ELSE Append(acc, cur))
    ELSE SplitScan(Tail(t), Append(cur, Head(t)), acc)

Split(t) == SplitScan(t, <<>>, <<>>)

\* the intents in the order the dict lists them, each with its patterns
patterns ==
    << [intent |-> "what_about",
        pats |-> << <<"what", "about">>, <<"what", "is", "about">>,
                    <<"tell", "me", "about">> >>],
       [intent |-> "key_points",
        pats |-> << <<"key", "point">>, <<"main", "point">>,
                    <<"important", "point">>, <<"key", "idea">>,
                    <<"what", "are", "key">> >>],
       [intent |-> "make_shorter",
        pats |-> << <<"shorter">>, <<"shorten">>, <<"condense">>, <<"brief">> >>],
       [intent |-> "explain",
        pats |-> << <<"explain">>, <<"elaborate">>, <<"describe">>, <<"clarify">> >>],
       [intent |-> "summary_length",
        pats |-> << <<"how", "long">>, <<"length">>, <<"word", "count">>,
                    <<"character", "count">>, <<"stats">> >>] >>

\* a variant that accepts a pattern word found inside a longer token
PatternMatchesSubstring(pat, tokens) ==
    \A j \in DOMAIN pat :
        \E i \in DOMAIN tokens : Len(tokens[i]) = 1 /\ Contains(tokens[i][1], pat[j])

\* all(p in tokens for p in pat)
PatternMatches(pat, tokens) ==
    \A j \in DOMAIN pat : \E i \in DOMAIN tokens : tokens[i] = <<pat[j]>>

RECURSIVE FirstIntent(_, _)
FirstIntent(i, tokens) ==
    IF i > Len(patterns) THEN "general"
    ELSE IF \E k \in DOMAIN patterns[i].pats : PatternMatches(patterns[i].pats[k], tokens)
         THEN patterns[i].intent
    ELSE FirstIntent(i + 1, tokens)

detect_intent(q) == FirstIntent(1, Split(normalize_text(q)))

\* the elements of s, each once, in the order of their first occurrence
RECURSIVE Dedup(_, _)
Dedup(s, acc) ==
    IF s = <<>> THEN acc
    ELSE Dedup(Tail(s), IF Head(s) \in Range(acc) THEN acc ELSE Append(acc, Head(s)))

\* sorted(s, key=key, reverse=True): stable
RECURSIVE SortDesc(_, _)
SortDesc(s, key) ==
    IF s = <<>> THEN <<>>
    ELSE LET k == s[Len(s)]
             rest == SortDesc(SubSeq(s, 1, Len(s) - 1), key)
         IN SelectSeq(rest, LAMBDA x : key[x] >= key[k]) \o <<k>>
                \o SelectSeq(rest, LAMBDA x : key[x] < key[k])

extract_keywords(t, top_n) ==
    LET words == word_tokenize(Lower(t))
        kept == SelectSeq(words,
                    LAMBDA w : IsAlnum(w) /\ w \notin STOP_WORDS /\ TokLen(w) > 2)
        freq == [w \in Range(kept) |-> Cardinality({i \in DOMAIN kept : kept[i] = w})]
    IN Take(SortDesc(Dedup(kept, <<>>), freq), top_n)

\* k in ls: the word k occurs inside the lowercased sentence
InStr(k, ls) == \E i \in DOMAIN ls : Contains(ls[i], k)

get_key_points(s, max_points) ==
    LET sents == sent_tokenize(s)
        keywords == extract_keywords(s, 10)
        score == [x \in Range(sents) |->
                    Cardinality({k \in Range(keywords) : InStr(k, Lower(x))})]
        scored == SortDesc(sents, score)
        key_points == SelectSeq(Take(scored, max_points), LAMBDA x : score[x] > 0)
    IN IF sents = <<>> THEN <<>>
       ELSE IF key_points = <<>> THEN Take(sents, max_points)
       ELSE key_points

\* make_shorter: summarize_text on the summary, or, when that raises, the
\* first max(1, int(len * ratio)) sentences; without tokenizer data both
\* attempts raise
make_shorter(s, r, e) ==
    IF e = "no_import"
    THEN LET sents == sent_tokenize(s)
         IN Ok(Join(Take(sents, Max(1, (Len(sents) * r) \div 100))))
    ELSE IF e = "no_tokenizer" /\ Strip(s) # <<>> THEN Raise("LookupError")
    ELSE LET new == summarize_text(s, Num(r))
         IN IF new.val = <<>> THEN Ok(s) ELSE new

explain_summary(s) ==
    [sentences |-> Len(sent_tokenize(s)), words |-> Len(Split(s)),
     chars |-> CharLen(s), keywords |-> extract_keywords(s, 5)]

\* the text holds no blank line, so every non-blank summary is one paragraph
get_summary_stats(s) ==
    [words |-> Len(Split(s)), chars |-> CharLen(s),
     chars_no_spaces |-> CharLen(word_tokenize(s)),
     sentences |-> Len(sent_tokenize(s)),
     paragraphs |-> IF Strip(s) = <<>> THEN 0 ELSE 1]

Msg(k) == [kind |-> k]

\* lines 107-138: the branch of the intent, its value or the exception
Handle(intent, q, s, e) ==
    IF intent = "make_shorter"
    THEN LET short == make_shorter(s, 50, e)
         IN IF short.exc # "none" THEN short
            ELSE Ok([kind |-> "shorter", short |-> short.val])
    ELSE IF e = "no_tokenizer" THEN Raise("LookupError")
    ELSE IF intent = "what_about"
    THEN Ok([kind |-> "what_about", keywords |-> extract_keywords(s, 5),
             first |-> IF sent_tokenize(s) # <<>> THEN sent_tokenize(s)[1] ELSE s])
    ELSE IF intent = "key_points"
    THEN IF get_key_points(s, 5) = <<>> THEN Ok(Msg("no_key_points"))
         ELSE Ok([kind |-> "key_points", points |-> get_key_points(s, 5)])
    ELSE IF intent = "explain"
    THEN Ok([kind |-> "explain", explanation |-> explain_summary(s)])
    ELSE IF intent = "summary_length"
    THEN Ok([kind |-> "stats", stats |-> get_summary_stats(s)])
    ELSE LET qwords == SelectSeq(word_tokenize(Lower(q)),
                           LAMBDA w : IsAlnum(w) /\ w \notin STOP_WORDS)
             relevant == SelectSeq(sent_tokenize(s),
                             LAMBDA x : \E i \in DOMAIN qwords : InStr(qwords[i], Lower(x)))
         IN IF relevant # <<>>
            THEN Ok([kind |-> "relevant", sentences |-> Join(Take(relevant, 3))])
            ELSE Ok(Msg("no_answer"))

\* a variant without the try/except around the branches
ChatUnguarded(q, s, e) ==
    IF Strip(s) = <<>> THEN Ok(Msg("no_summary"))
    ELSE IF Strip(q) = <<>> THEN Ok(Msg("no_question"))
    ELSE Handle(detect_intent(q), q, s, e)

chat_with_summary(q, s, e) ==
    IF Strip(s) = <<>> THEN Ok(Msg("no_summary"))
    ELSE IF Strip(q) = <<>> THEN Ok(Msg("no_question"))
    ELSE LET r == Handle(detect_intent(q), q, s, e)
         IN IF r.exc # "none" THEN Ok(Msg("error")) ELSE r

\* ----------------------------------------------------------- chat: inputs
QWords ==
    {"What", "about", "Key", "point", "points", "shorter", "explain", "length",
     "article"}

\* a question: the words with single spaces, then as typed (0), with
\* whitespace around it (1) or with a question mark (2)
Ask(ws, lay) ==
    CASE lay = 0 -> Join([i \in DOMAIN ws |-> <<ws[i]>>])
      [] lay = 1 -> <<SP>> \o Join([i \in DOMAIN ws |-> <<ws[i]>>]) \o <<SP>>
      [] OTHER -> Join([i \in DOMAIN ws |-> <<ws[i]>>]) \o <<"?">>

WordLists(n) == UNION {[1..k -> QWords] : k \in 0..n}

Questions(n) == {Ask(ws, lay) : ws \in WordLists(n), lay \in 0..2}

Envs == {"ok", "no_tokenizer", "no_import"}

InitChat ==
    /\ op \in {"detect_intent", "chat_with_summary", "make_shorter"}
    /\ pc = "call"
    /\ text = <<>> /\ ratio = Num(DEFAULT_RATIO) /\ isJson = TRUE
    /\ \/ /\ op = "detect_intent"
          /\ question \in Questions(MaxQWords)
          /\ summary = <<>> /\ env = "ok"
       \/ /\ op = "chat_with_summary"
          /\ \E k \in 0..MaxChat :
                /\ question \in {Ask(ws, lay) : ws \in [1..k -> QWords], lay \in 0..2}
                /\ summary \in {Build(ss, pad) :
                        ss \in UNION {[1..m -> Pool] : m \in 0..Min(MaxSents, MaxChat - k)},
                        pad \in {0, MaxPad}}
          /\ env \in Envs
       \/ /\ op = "make_shorter"
          /\ question = <<>>
          /\ summary \in Texts
          /\ env \in Envs
    /\ url = NoUrl /\ HAS_READABILITY = FALSE /\ resp = NoResponse /\ soup = NoSoup /\ trace = <<>>
    /\ ret = Pending

DetectIntent ==
    /\ op = "detect_intent" /\ pc = "call"
    /\ ret' = Ok(detect_intent(question))
    /\ pc' = "done"
    /\ UNCHANGED <<op, sumVars, chatVars, url, HAS_READABILITY, resp, soup, trace>>

ChatWithSummary ==
    /\ op = "chat_with_summary" /\ pc = "call"
    /\ ret' = chat_with_summary(question, summary, env)
    /\ pc' = "done"
    /\ UNCHANGED <<op, sumVars, chatVars, url, HAS_READABILITY, resp, soup, trace>>

MakeShorter ==
    /\ op = "make_shorter" /\ pc = "call"
    /\ ret' = make_shorter(summary, 50, env)
    /\ pc' = "done"
    /\ UNCHANGED <<op, sumVars, chatVars, url, HAS_READABILITY, resp, soup, trace>>

NextChat == DetectIntent \/ ChatWithSummary \/ MakeShorter

SpecChat == InitChat /\ [][NextChat]_vars

\* ------------------------------------------------------- chat: properties
Blank(t) == Strip(t) = <<>>

\* the tokens of the normalised question
Tokens == Split(normalize_text(question))

\* the priority order of the intents
Priority == <<"what_about", "key_points", "make_shorter", "explain", "summary_length">>

\* some pattern of the intent has all its words among the tokens
WholeTokenHit(name) ==
    \E i \in DOMAIN patterns :
        /\ patterns[i].intent = name
        /\ \E k \in DOMAIN patterns[i].pats :
              \A w \in Range(patterns[i].pats[k]) :
                  \E t \in DOMAIN Tokens : Tokens[t] = <<w>>

\* C5: detect_intent returns the first intent, in priority order, one of
\* whose patterns has all its words among the question's tokens as whole
\* tokens, and general exactly when no pattern matches.
C5_FirstMatchingIntent ==
    (op = "detect_intent" /\ pc = "done") =>
        LET hits == {k \in DOMAIN Priority : WholeTokenHit(Priority[k])}
        IN IF hits = {} THEN ret.val = "general"
           ELSE \E k \in hits : (\A j \in hits : k <= j) /\ ret.val = Priority[k]

\* C5 witness: a question matching two intents, its pattern words out of
\* order, got the earlier intent.
C5_Witness ==
    /\ op = "detect_intent" /\ pc = "done"
    /\ ret.val = "what_about"
    /\ WholeTokenHit("explain")
    /\ Tokens[1] = <<"about">>

\* C6: chat_with_summary never raises; a blank summary gives the "no
\* summary yet" message whatever the question, otherwise a blank question
\* gives the "please ask a question" message, otherwise an error raised by
\* the intent's branch gives the "I encountered an error" message.
C6_SoftFailures ==
    (op = "chat_with_summary" /\ pc = "done") =>
        /\ ret.exc = "none"
        /\ Blank(summary) => ret.val = Msg("no_summary")
        /\ (~Blank(summary) /\ Blank(question)) => ret.val = Msg("no_question")
        /\ (~Blank(summary) /\ ~Blank(question)
                /\ Handle(detect_intent(question), question, summary, env).exc # "none")
              => ret.val = Msg("error")
        /\ (~Blank(summary) /\ ~Blank(question) /\ env = "no_tokenizer")
              => ret.val = Msg("error")

\* C6 witness: the branch of a question raised and the error message came
\* back.
C6_Witness ==
    /\ op = "chat_with_summary" /\ pc = "done"
    /\ ~Blank(summary) /\ ~Blank(question)
    /\ env = "no_tokenizer"
    /\ ret = Ok(Msg("error"))

\* a shortened text was produced, by make_shorter or by the make_shorter
\* branch of chat_with_summary
HasShort ==
    /\ pc = "done"
    /\ \/ op = "make_shorter" /\ ret.exc = "none"
       \/ op = "chat_with_summary" /\ ret.val.kind = "shorter"

Short == IF op = "make_shorter" THEN ret.val ELSE ret.val.short

\* C7 as stated: the shortened text of a summary of more than one sentence
\* has no more sentences than the summary and each is a sentence of it.
C7_SentencesOfSummary ==
    (HasShort /\ Len(sent_tokenize(summary)) > 1) =>
        /\ Len(sent_tokenize(Short)) <= Len(sent_tokenize(summary))
        /\ Range(sent_tokenize(Short)) \subseteq Range(sent_tokenize(summary))

\* C7: the shortened text of a summary of more than one sentence has no
\* more sentences than the summary, and each of its sentences is a sentence
\* of the summary up to whitespace normalisation.
C7_NeverLonger ==
    (HasShort /\ Len(sent_tokenize(summary)) > 1) =>
        /\ Len(sent_tokenize(Short)) <= Len(sent_tokenize(summary))
        /\ \A i \in DOMAIN sent_tokenize(Short) :
              \E j \in DOMAIN sent_tokenize(summary) :
                  _clean_text(sent_tokenize(Short)[i]) = _clean_text(sent_tokenize(summary)[j])

\* C7 witness: a make_shorter question on a two-sentence summary with
\* repeated whitespace returned one sentence.
C7_Witness ==
    /\ op = "chat_with_summary" /\ HasShort
    /\ Len(sent_tokenize(summary)) = 2
    /\ summary # _clean_text(summary)
    /\ Len(sent_tokenize(Short)) = 1

\* -------------------------------------------------------------- extractor
\* The text a page yields is a sequence of runs [k, n]: n characters of
\* kind "c" (visible), "s" (space or tab) or "n" (newline); neighbouring
\* runs differ in kind.

\* urlparse(candidate), then "http://" + candidate when it has no scheme
_is_valid_url(u) ==
    LET scheme == IF u.scheme = "" THEN "http" ELSE u.scheme
    IN IF u.scheme = "" /\ u.rest = "" THEN [valid |-> FALSE, netloc |-> ""]
       ELSE IF scheme \notin {"http", "https"} THEN [valid |-> FALSE, netloc |-> ""]
       ELSE IF u.rest = "" THEN [valid |-> FALSE, netloc |-> ""]
       ELSE [valid |-> TRUE, netloc |-> u.rest]

\* "wikipedia.org" in parsed.netloc.lower()
IsWikipedia(netloc) == netloc \in {"en.wikipedia.org", "EN.Wikipedia.org"}

\* "html" in content_type.lower()
IsHtmlType(ctype) == ctype \in {"text/html", "Text/HTML; charset=utf-8"}

RECURSIVE PageLen(_)
PageLen(t) == IF t = <<>> THEN 0 ELSE Head(t).n + PageLen(Tail(t))

\* re.sub(r"[ \t]{2,}", " ", text)
CollapseBlanks(t) ==
    [i \in DOMAIN t |-> IF t[i].k = "s" /\ t[i].n >= 2 THEN [k |-> "s", n |-> 1] ELSE t[i]]

\* re.sub(r"\n{3,}", "\n\n", text)
CollapseNewlines(t) ==
    [i \in DOMAIN t |-> IF t[i].k = "n" /\ t[i].n >= 3 THEN [k |-> "n", n |-> 2] ELSE t[i]]

RECURSIVE PageLStrip(_)
PageLStrip(t) ==
    IF t # <<>> /\ Head(t).k # "c" THEN PageLStrip(Tail(t)) ELSE t

RECURSIVE PageRStrip(_)
PageRStrip(t) ==
    IF t # <<>> /\ t[Len(t)].k # "c" THEN PageRStrip(SubSeq(t, 1, Len(t) - 1)) ELSE t

PageStrip(t) == PageRStrip(PageLStrip(t))

\* lines 138 and 151: the text returned by an early strategy
PostEarly(t) == PageStrip(CollapseNewlines(CollapseBlanks(t)))

\* lines 224-225: the text of the generic heuristics
PostGeneric(t) == PageStrip(CollapseBlanks(CollapseNewlines(t)))

Step(name, out) == [step |-> name, out |-> out]

\* the responses of the fetch, and the texts a strategy can find
Responses ==
    [status : {200, 404},
     ctype : {"text/html", "Text/HTML; charset=utf-8", "application/json", ""},
     body_html : BOOLEAN]

Runs == [k : {"c", "s", "n"}, n : {1, 3, 48}]

PageTexts ==
    UNION {{t \in [1..m -> Runs] : \A i \in 1..(m - 1) : t[i].k # t[i + 1].k} :
           m \in 0..MaxRuns}

\* soup.get_text(..., strip=True) and "\n\n".join(...).strip(): no
\* whitespace at either end
StrippedTexts == {t \in PageTexts : PageStrip(t) = t}

Urls ==
    [scheme : {"", "http", "https", "ftp"},
     rest : {"", "example.com", "en.wikipedia.org", "EN.Wikipedia.org"}]

InitExtract ==
    /\ op = "extract_readable_text"
    /\ pc = "validate"
    /\ text = <<>> /\ ratio = Num(DEFAULT_RATIO) /\ isJson = TRUE
    /\ question = <<>> /\ summary = <<>> /\ env = "ok"
    /\ url \in Urls
    /\ HAS_READABILITY \in BOOLEAN
    /\ resp = NoResponse
    /\ soup = NoSoup
    /\ trace = <<>>
    /\ ret = Pending

\* lines 109-111
Validate ==
    /\ op = "extract_readable_text" /\ pc = "validate"
    /\ IF _is_valid_url(url).valid
       THEN /\ trace' = Append(trace, Step("validate", "ok"))
            /\ pc' = "fetch"
            /\ ret' = ret
       ELSE /\ trace' = Append(trace, Step("validate", "error"))
            /\ pc' = "done"
            /\ ret' = Raise("ValueError: Invalid URL")
    /\ UNCHANGED <<op, sumVars, chatVars, url, HAS_READABILITY, resp, soup>>

\* lines 118-122: the one requests.get, which answers or raises
Fetch ==
    /\ op = "extract_readable_text" /\ pc = "fetch"
    /\ \/ /\ trace' = Append(trace, Step("fetch", "error"))
          /\ pc' = "done"
          /\ ret' = Raise("ValueError: Network error")
          /\ resp' = resp
       \/ \E r \in Responses :
            /\ resp' = r
            /\ trace' = Append(trace, Step("fetch", "ok"))
            /\ pc' = "status"
            /\ ret' = ret
    /\ UNCHANGED <<op, sumVars, chatVars, url, HAS_READABILITY, soup>>

\* lines 124-125
CheckStatus ==
    /\ op = "extract_readable_text" /\ pc = "status"
    /\ IF resp.status # 200
       THEN /\ trace' = Append(trace, Step("status", "error"))
            /\ pc' = "done"
            /\ ret' = Raise("ValueError: Failed to fetch page")
       ELSE /\ trace' = Append(trace, Step("status", "ok"))
            /\ pc' = "content_type"
            /\ ret' = ret
    /\ UNCHANGED <<op, sumVars, chatVars, url, HAS_READABILITY, resp, soup>>

\* where the cascade goes when a strategy did not return
AfterReadability ==
    IF IsWikipedia(_is_valid_url(url).netloc) THEN "wikipedia" ELSE "generic"

\* a variant that lets a response without HTML through
CheckContentTypeLenient ==
    /\ op = "extract_readable_text" /\ pc = "content_type"
    /\ trace' = Append(trace,
          Step("content_type",
               IF IsHtmlType(resp.ctype) \/ resp.body_html THEN "ok" ELSE "error"))
    /\ pc' = IF HAS_READABILITY THEN "readability" ELSE AfterReadability
    /\ ret' = ret
    /\ UNCHANGED <<op, sumVars, chatVars, url, HAS_READABILITY, resp, soup>>

\* lines 127-133
CheckContentType ==
    /\ op = "extract_readable_text" /\ pc = "content_type"
    /\ IF ~IsHtmlType(resp.ctype) /\ ~resp.body_html
       THEN /\ trace' = Append(trace, Step("content_type", "error"))
            /\ pc' = "done"
            /\ ret' = Raise("ValueError: URL did not return HTML content")
       ELSE /\ trace' = Append(trace, Step("content_type", "ok"))
            /\ pc' = IF HAS_READABILITY THEN "readability" ELSE AfterReadability
            /\ ret' = ret
    /\ UNCHANGED <<op, sumVars, chatVars, url, HAS_READABILITY, resp, soup>>

\* lines 133-140: _extract_with_readability raises or yields a text
TryReadability ==
    /\ op = "extract_readable_text" /\ pc = "readability"
    /\ \/ /\ trace' = Append(trace, Step("readability", "failed"))
          /\ pc' = AfterReadability
          /\ ret' = ret
       \/ \E t \in StrippedTexts :
            IF t # <<>> /\ PageLen(t) >= MIN_TEXT_LENGTH
            THEN /\ trace' = Append(trace, Step("readability", "returned"))
                 /\ pc' = "done"
                 /\ ret' = Ok(PostEarly(t))
            ELSE /\ trace' = Append(trace, Step("readability", "short"))
                 /\ pc' = AfterReadability
                 /\ ret' = ret
    /\ UNCHANGED <<op, sumVars, chatVars, url, HAS_READABILITY, resp, soup>>

\* lines 142-152: _extract_wikipedia yields a text
TryWikipedia ==
    /\ op = "extract_readable_text" /\ pc = "wikipedia"
    /\ \E t \in StrippedTexts :
         IF t # <<>> /\ PageLen(t) >= MIN_TEXT_LENGTH
         THEN /\ trace' = Append(trace, Step("wikipedia", "returned"))
              /\ pc' = "done"
              /\ ret' = Ok(PostEarly(t))
         ELSE /\ trace' = Append(trace, Step("wikipedia", "short"))
              /\ pc' = "generic"
              /\ ret' = ret
    /\ UNCHANGED <<op, sumVars, chatVars, url, HAS_READABILITY, resp, soup>>

\* lines 154-231: the generic heuristics yield a text, post-processed and
\* then measured
GenericHeuristics ==
    /\ op = "extract_readable_text" /\ pc = "generic"
    /\ \E t \in PageTexts :
         LET post == PostGeneric(t)
         IN IF post = <<>> \/ PageLen(post) < MIN_TEXT_LENGTH
            THEN /\ trace' = Append(trace, Step("generic", "error"))
                 /\ ret' = Raise("ValueError: No readable article text found")
            ELSE /\ trace' = Append(trace, Step("generic", "returned"))
                 /\ ret' = Ok(post)
    /\ pc' = "done"
    /\ UNCHANGED <<op, sumVars, chatVars, url, HAS_READABILITY, resp, soup>>

NextExtract ==
    \/ Validate \/ Fetch \/ CheckStatus \/ CheckContentType
    \/ TryReadability \/ TryWikipedia \/ GenericHeuristics

SpecExtract == InitExtract /\ [][NextExtract]_vars

\* ------------------------------- the generic heuristics on a parsed document
\* An element is a record: its tag, at most one of the attributes role, id
\* and class with its value, the length n of the text directly inside it
\* (before its child elements; 0 for none) and its child elements.
Kinds ==
    { [tag |-> "p",       attr |-> "",      val |-> ""],
      [tag |-> "p",       attr |-> "class", val |-> "Sidebar"],
      [tag |-> "div",     attr |-> "",      val |-> ""],
      [tag |-> "div",     attr |-> "id",    val |-> "NavBar"],
      [tag |-> "div",     attr |-> "id",    val |-> "navbar"],
      [tag |-> "div",     attr |-> "role",  val |-> "Navigation"],
      [tag |-> "article", attr |-> "",      val |-> ""],
      [tag |-> "nav",     attr |-> "",      val |-> ""] }

TextLens == {0, 60, 250}

Element(kind, n, kids) ==
    [tag |-> kind.tag, attr |-> kind.attr, val |-> kind.val, n |-> n, kids |-> kids]

\* the sequences of sibling elements with n elements in all, descendants
\* included, and the elements with n elements in all
RECURSIVE Forests(_)
RECURSIVE Trees(_)
Forests(n) ==
    IF n = 0 THEN {<<>>}
    ELSE UNION {{<<t>> \o f : t \in Trees(k), f \in Forests(n - k)} : k \in 1..n}

Trees(n) ==
    {Element(kind, len, kids) :
        kind \in Kinds, len \in TextLens, kids \in Forests(n - 1)}

\* the documents of at most n elements
Doms(n) == UNION {Forests(k) : k \in 0..n}

\* str.lower() on an attribute value
LowerVal(v) ==
    CASE v = "NavBar" -> "navbar"
      [] v = "Sidebar" -> "sidebar"
      [] v = "Navigation" -> "navigation"
      [] OTHER -> v

\* lines 163-167: any(k in v for k in noisy_keywords), on the values of
\* Kinds: "nav" is in "navbar" and "navigation", "sidebar" in "sidebar"; the
\* test is a substring test on the characters as they are, so no keyword is
\* in "NavBar", "Sidebar" or "Navigation"
HasNoisyKeyword(v) == v \in {"navbar", "navigation", "sidebar"}

\* the element's tag and attribute, without its content
Desc(e) == [tag |-> e.tag, attr |-> e.attr, val |-> e.val]

\* lines 156-161: the tags removed whatever their attributes
NonContentTags ==
    {"script", "style", "noscript", "iframe", "svg", "picture", "figure",
     "button", "input", "form", "nav", "header", "footer", "aside"}

\* which elements a removal pass decomposes
\*   "tag"    lines 156-161
\*   "role"   lines 169-172: the role is lowercased before the test
\*   "select" lines 174-181: soup.select('[id*="kw"]') and '[class*="kw"]'
\*            compare the attribute value as written
Decomposed(e, pass) ==
    CASE pass = "tag" -> e.tag \in NonContentTags
      [] pass = "role" -> e.attr = "role" /\ HasNoisyKeyword(LowerVal(e.val))
      [] pass = "select" -> e.attr \in {"id", "class"} /\ HasNoisyKeyword(e.val)
      [] OTHER -> FALSE

\* decompose() on every element a pass finds: the element goes with all its
\* descendants; decomposing an element that went with an ancestor changes
\* nothing
RECURSIVE Decompose(_, _)
Decompose(f, pass) ==
    IF f = <<>> THEN <<>>
    ELSE LET e == Head(f)
         IN (IF Decomposed(e, pass) THEN <<>>
             ELSE <<[e EXCEPT !.kids = Decompose(e.kids, pass)]>>)
            \o Decompose(Tail(f), pass)

\* lines 169-170: the role loop runs over a list made before it removes
\* anything, so it reaches an element with a role inside an element it has
\* already decomposed, and calls elem.get("role") on it
RECURSIVE RoleInside(_, _)
RoleInside(f, gone) ==
    \E i \in DOMAIN f :
        \/ gone /\ f[i].attr = "role"
        \/ RoleInside(f[i].kids, gone \/ Decomposed(f[i], "role"))

\* the strings of get_text(): the text nodes of an element and of its
\* descendants in document order, each a run of characters that names the
\* elements it lies in, outermost first
RECURSIVE Strings(_, _)
RECURSIVE StringsOf(_, _)
Strings(e, up) ==
    (IF e.n > 0 THEN <<[k |-> "c", n |-> e.n, of |-> Append(up, Desc(e))]>> ELSE <<>>)
    \o StringsOf(e.kids, Append(up, Desc(e)))

StringsOf(f, up) ==
    IF f = <<>> THEN <<>> ELSE Strings(Head(f), up) \o StringsOf(Tail(f), up)

\* sep.join(strings) as runs
RECURSIVE JoinRuns(_, _)
JoinRuns(strings, sep) ==
    IF strings = <<>> THEN <<>>
    ELSE IF Len(strings) = 1 THEN strings
    ELSE <<Head(strings)>> \o sep \o JoinRuns(Tail(strings), sep)

OneSpace == <<[k |-> "s", n |-> 1]>>
TwoNewlines == <<[k |-> "n", n |-> 2]>>

\* elem.get_text(separator=sep, strip=True)
get_text(e, up, sep) == JoinRuns(Strings(e, up), sep)

\* soup.find_all(True): every element in document order, each with the
\* elements around it, outermost first
RECURSIVE FindAll(_, _)
FindAll(f, up) ==
    IF f = <<>> THEN <<>>
    ELSE <<[elem |-> Head(f), up |-> up]>>
         \o FindAll(Head(f).kids, Append(up, Desc(Head(f))))
         \o FindAll(Tail(f), up)

\* lines 195-203: the walk over the ancestors of a paragraph, their id and
\* class lowercased
NoisyAncestor(up) ==
    \E i \in DOMAIN up :
        up[i].attr \in {"id", "class"} /\ HasNoisyKeyword(LowerVal(up[i].val))

\* lines 189-206: the paragraphs kept
Paragraphs(doc) ==
    LET found == SelectSeq(FindAll(doc, <<>>), LAMBDA x : x.elem.tag = "p")
        kept == SelectSeq(found, LAMBDA x :
                    LET p_text == get_text(x.elem, x.up, OneSpace)
                    IN /\ p_text # <<>>
                       /\ PageLen(p_text) >= 40
                       /\ ~NoisyAncestor(x.up))
    IN [i \in DOMAIN kept |-> get_text(kept[i].elem, kept[i].up, OneSpace)]

RECURSIVE JoinTexts(_, _)
JoinTexts(texts, sep) ==
    IF texts = <<>> THEN <<>>
    ELSE IF Len(texts) = 1 THEN Head(texts)
    ELSE Head(texts) \o sep \o JoinTexts(Tail(texts), sep)

\* lines 210-222: the texts of more than 200 characters, and the longest of
\* them; among texts of one length the sort compares the characters, which
\* the model does not hold, so each of them can come first
LongestBlocks(doc) ==
    LET all == FindAll(doc, <<>>)
        candidates == {get_text(all[i].elem, all[i].up, OneSpace) : i \in DOMAIN all}
        long == {t \in candidates : PageLen(t) > 200}
    IN IF long = {} THEN {<<>>}
       ELSE {t \in long : \A u \in long : PageLen(u) <= PageLen(t)}

\* lines 184-222: the texts the selection can yield on the document left by
\* the removal passes
SelectText(doc) ==
    LET articles == SelectSeq(FindAll(doc, <<>>), LAMBDA x : x.elem.tag = "article")
    IN IF articles # <<>>
       THEN {get_text(articles[1].elem, articles[1].up, TwoNewlines)}
       ELSE IF Paragraphs(doc) # <<>>
            THEN {JoinTexts(Paragraphs(doc), TwoNewlines)}
            ELSE LongestBlocks(doc)

\* lines 156-181: the document after the three removal passes
RemoveNoise(doc) ==
    Decompose(Decompose(Decompose(doc, "tag"), "role"), "select")

\* the call has reached line 154 on a page that is not Wikipedia's: the
\* response was 200 and HTML, readability was missing or failed, and soup
\* holds the document parsed at line 142
InitGeneric ==
    /\ op = "extract_readable_text"
    /\ pc = "generic"
    /\ text = <<>> /\ ratio = Num(DEFAULT_RATIO) /\ isJson = TRUE
    /\ question = <<>> /\ summary = <<>> /\ env = "ok"
    /\ url = [scheme |-> "https", rest |-> "example.com"]
    /\ HAS_READABILITY \in BOOLEAN
    /\ resp = [status |-> 200, ctype |-> "text/html", body_html |-> TRUE]
    /\ soup \in Doms(MaxNodes)
    /\ trace = <<Step("validate", "ok"), Step("fetch", "ok"), Step("status", "ok"),
                 Step("content_type", "ok")>>
               \o (IF HAS_READABILITY THEN <<Step("readability", "failed")>> ELSE <<>>)
    /\ ret = Pending

\* lines 156-181: the removal passes. elem.get("role") on an element
\* decomposed with its ancestor depends on the installed BeautifulSoup: it
\* raises AttributeError or finds no role.
RemoveNoiseElements ==
    /\ op = "extract_readable_text" /\ pc = "generic"
    /\ \E outcome \in (IF RoleInside(Decompose(soup, "tag"), FALSE)
                       THEN {"raises", "no_role"} ELSE {"no_role"}) :
         IF outcome = "raises"
         THEN /\ soup' = NoSoup
              /\ trace' = Append(trace, Step("generic", "error"))
              /\ ret' = Raise("AttributeError")
              /\ pc' = "done"
         ELSE /\ soup' = RemoveNoise(soup)
              /\ pc' = "select"
              /\ UNCHANGED <<trace, ret>>
    /\ UNCHANGED <<op, sumVars, chatVars, url, HAS_READABILITY, resp>>

\* lines 184-231: selection, post-processing, then the length test
SelectAndReturn ==
    /\ op = "extract_readable_text" /\ pc = "select"
    /\ \E t \in SelectText(soup) :
         LET post == PostGeneric(t)
         IN IF post = <<>> \/ PageLen(post) < MIN_TEXT_LENGTH
            THEN /\ trace' = Append(trace, Step("generic", "error"))
                 /\ ret' = Raise("ValueError: No readable article text found")
            ELSE /\ trace' = Append(trace, Step("generic", "returned"))
                 /\ ret' = Ok(post)
    /\ pc' = "done"
    /\ UNCHANGED <<op, sumVars, chatVars, url, HAS_READABILITY, resp, soup>>

NextGeneric == RemoveNoiseElements \/ SelectAndReturn

SpecGeneric == InitGeneric /\ [][NextGeneric]_vars

\* ------------------------------------------------- extractor: properties
\* C8: every text extract_readable_text returns, whichever strategy found
\* it, has at least MIN_TEXT_LENGTH characters after post-processing.
C8_MinLength ==
    (op = "extract_readable_text" /\ pc = "done" /\ ret.exc = "none") =>
        PageLen(ret.val) >= 50

\* the steps of a call in their order
StepOrder ==
    <<"validate", "fetch", "status", "content_type", "readability", "wikipedia",
      "generic">>

StepIndex(name) == CHOOSE i \in DOMAIN StepOrder : StepOrder[i] = name

Strategies == {"readability", "wikipedia", "generic"}

\* C9: the steps of a call are taken in the fixed order, each at most once:
\* validation, at most one fetch and none for an invalid URL, the status and
\* content-type checks, then readability, domain-specific, generic; a step
\* that ends in an error or returns is the last; a strategy runs only after
\* a 200 HTML response and only if every strategy tried before it failed or
\* produced fewer than 50 characters.
C9_StepOrder ==
    op = "extract_readable_text" =>
        /\ \A i, j \in DOMAIN trace :
              i < j => StepIndex(trace[i].step) < StepIndex(trace[j].step)
        /\ \A i \in DOMAIN trace :
              i < Len(trace) => trace[i].out \in {"ok", "failed", "short"}
        /\ \A i \in DOMAIN trace :
              /\ trace[i].step = "fetch" =>
                    (url.rest # "" /\ url.scheme \in {"", "http", "https"})
              /\ trace[i].step \in Strategies =>
                    /\ resp.status = 200
                    /\ resp.body_html \/ resp.ctype \in {"text/html", "Text/HTML; charset=utf-8"}
                    /\ \A j \in 1..(i - 1) :
                          trace[j].step \in Strategies => trace[j].out \in {"failed", "short"}
        /\ pc = "done" => (trace # <<>> /\ trace[Len(trace)].out \in {"error", "returned"})

\* C9 witness: all three strategies ran, in order, and the last returned.
C9_Witness ==
    /\ op = "extract_readable_text" /\ pc = "done"
    /\ Len(trace) = 7
    /\ trace[5] = Step("readability", "failed")
    /\ trace[6] = Step("wikipedia", "short")
    /\ trace[7] = Step("generic", "returned")

\* an element whose role, id or class holds a noise keyword, letter case
\* aside
NoisyElement(d) ==
    d.attr \in {"role", "id", "class"} /\ HasNoisyKeyword(LowerVal(d.val))

\* C11: when the generic heuristics return a text, no character of it lies
\* in an element whose role, id or class holds a noise keyword, compared
\* without regard to letter case.
C11_NoNoiseText ==
    (/\ op = "extract_readable_text" /\ pc = "done"
     /\ trace # <<>> /\ trace[Len(trace)] = Step("generic", "returned")) =>
        \A i \in DOMAIN ret.val :
            ret.val[i].k = "c" =>
                \A j \in DOMAIN ret.val[i].of : ~NoisyElement(ret.val[i].of[j])

====
